---- MODULE Spec2Model ----
(***************************************************************************)
(* SortAlgorithmTester (Koldar/phdTester): the sequence generators, the    *)
(* four sort strategies, the validator and the benchmark loop of main(),   *)
(* modelled from SortAlgorithmTester.cpp (first translation unit, lines    *)
(* 1-353).                                                                 *)
(*                                                                         *)
(* C++ vectors are 0-based; TLA+ sequences are 1-based.  The operators     *)
(* below keep the C index variables (i, j, k, left, right ...) and read    *)
(* element i of a vector v as v[i + 1].                                    *)
(*                                                                         *)
(* A call's outcome is a record                                            *)
(*   [kind, seq, ub, exps]                                                 *)
(* kind : "ok"      the call returned                                      *)
(*        "throw"   a std::domain_error left the call                      *)
(*        "crash"   the process was killed inside the call (SIGFPE,        *)
(*                  SIGSEGV, stack exhaustion)                             *)
(*        "nonterm" the call never returns                                 *)
(* seq  : the vector the call leaves / returns                             *)
(* ub   : TRUE when the call executed an operation whose behaviour the     *)
(*        language leaves undefined; the outcomes listed for such a call   *)
(*        are the ones a build can show, and nothing can be relied on.     *)
(* exps : the digit weights RadixSort handed to countSort, in order.       *)
(* A function whose behaviour depends on the build returns the SET of its  *)
(* possible outcomes.                                                      *)
(***************************************************************************)
EXTENDS Integers, Sequences, FiniteSets, TLC

VARIABLES
    \* the globals the command line fills (lines 10-17)
    _sequenceSize, _algorithm, _sequenceType, _seed, _lowerBound, _upperBound,
    _runs,
    \* whether fopen() of the output file will succeed (the environment)
    canOpen,
    \* the state of rand(): the last value drawn
    randState,
    \* main(): position, the algorithm object, the loop counter, the vector
    pc, alg, run, sequence,
    \* main(): the output file: "none", "open", "closed"; the number of header
    \* lines and the rows written to it
    file, header, rows,
    \* main(): the timer: "idle", "running", "stopped"; the elapsed microseconds
    timer, elapsed,
    \* main(): how the process ended: "" while running
    exit,
    \* main(): TRUE once an undefined operation was executed
    undefined,
    \* main(): per row written, the vector the sort had left (history)
    recorded,
    \* main(): per run, the vector generated and the number of rand() calls
    \* made before it (history); the number of rand() calls made so far
    generated, draws,
    \* a direct call of one function: the call and what it gave
    call, ret

vars == <<_sequenceSize, _algorithm, _sequenceType, _seed, _lowerBound,
          _upperBound, _runs, canOpen, randState, pc, alg, run, sequence,
          file, header, rows, timer, elapsed, exit, undefined, recorded,
          generated, draws, call, ret>>

history == <<recorded, generated, draws>>

globals == <<_sequenceSize, _algorithm, _sequenceType, _seed, _lowerBound,
             _upperBound, _runs, canOpen>>

(***************************************************************************)
(* Bounds of the model.                                                    *)
(***************************************************************************)
\* longest vector handed directly to a sort or to the validator
MaxLen == 3
\* largest --sequenceSize
MaxSize == 2
\* largest --runs
MaxRuns == 2
\* largest --seed
MaxSeed == 1
\* largest value of --lowerBound / --upperBound (the smallest is -1)
MaxBound == 2
\* largest value rand() returns (RAND_MAX of the modelled generator)
RandMax == 7
\* nested calls of MergeSort::_merge the stack can hold
MaxStack == 4
\* largest elapsed time of a sort, in microseconds
MaxElapsed == 1

(***************************************************************************)
(* Machine integers.                                                       *)
(***************************************************************************)
\* INT_MAX of a 32 bit int
IntMax == 2147483647
\* number of values of a char
CharRange == 256

\* C integer division: truncation towards zero
CDiv(a, b) ==
    IF b = 0 THEN 0
    ELSE IF (a >= 0) = (b > 0) \/ a = 0
         THEN (IF a >= 0 THEN a ELSE -a) \div (IF b >= 0 THEN b ELSE -b)
         ELSE -((IF a >= 0 THEN a ELSE -a) \div (IF b >= 0 THEN b ELSE -b))

\* C remainder: the sign of the dividend
CMod(a, b) == a - b * CDiv(a, b)

\* int -> char -> int, as `output[..] = sequence[i]; sequence[i] = output[i]`
\* does it: the value is reduced modulo 256; a signed char reads 128..255 back
\* as -128..-1
ToChar(v, charSigned) ==
    LET m == v % CharRange
    IN  IF charSigned /\ m >= CharRange \div 2 THEN m - CharRange ELSE m

\* exp * 10 in a 32 bit register (two's complement wrap), computed on 16 bit
\* halves so that no intermediate value leaves the 32 bit range
Mul10Wrap(exp) ==
    LET u  == IF exp >= 0 THEN exp ELSE exp + IntMax + 1    \* low 31 bits
        top == IF exp >= 0 THEN 0 ELSE 32768                \* bit 31, as part of hi
        hi == (u \div 65536) + top
        lo == u % 65536
        lo10 == lo * 10
        nlo == lo10 % 65536
        nhi == (hi * 10 + lo10 \div 65536) % 65536
    IN  IF nhi >= 32768 THEN (nhi - 65536) * 65536 + nlo ELSE nhi * 65536 + nlo

Outcome(kind, seq, ub) == [kind |-> kind, seq |-> seq, ub |-> ub, exps |-> <<>>]

\* what an out-of-bounds access (or another undefined operation that does not
\* by itself produce a value) can lead to: the process is killed, or the call
\* goes on and returns with the vector as it stands
Undefined(seq) == {Outcome("crash", seq, TRUE), Outcome("ok", seq, TRUE)}

(***************************************************************************)
(* rand() / srand(): a deterministic generator, a function of the seed and *)
(* of the number of draws only.  The state is the last value returned.     *)
(***************************************************************************)
srand(seed) == seed % (RandMax + 1)

rand(rng) == (5 * rng + 3) % (RandMax + 1)

(***************************************************************************)
(* Sequence generators (lines 19-59).  A generator outcome is              *)
(* [kind, seq, ub, rng]: rng is the state rand() is left in.               *)
(***************************************************************************)
\* A draw is [kind, val, ub, rng].  `rand() % (ub - lb)` with ub = lb is a
\* remainder by zero: the process is killed (SIGFPE, x86) or the remainder is
\* the dividend itself (AArch64: sdiv gives 0, msub gives rand()).
generateRandomNumber(lb, ub, lbIn, ubIn, rng) ==
    LET lb2 == lb + (IF lbIn THEN 0 ELSE 1)
        ub2 == ub + (IF ubIn THEN 1 ELSE 0)
        r   == rand(rng)
    IN  IF lb2 > ub2
        THEN {[kind |-> "throw", val |-> 0, ub |-> FALSE, rng |-> rng]}
        ELSE IF ub2 - lb2 = 0
        THEN {[kind |-> "crash", val |-> 0, ub |-> TRUE, rng |-> r],
              [kind |-> "ok", val |-> lb2 + r, ub |-> TRUE, rng |-> r]}
        ELSE {[kind |-> "ok", val |-> lb2 + (r % (ub2 - lb2)), ub |-> FALSE,
               rng |-> r]}

\* `std::vector<int> result{size}`: the braces select the initializer-list
\* constructor, so the vector starts as the one element `size`
InitialVector(size) == <<size>>

GenOutcome(kind, seq, ub, rng) ==
    [kind |-> kind, seq |-> seq, ub |-> ub, rng |-> rng]

RECURSIVE randomLoop(_, _, _, _, _)
randomLoop(size, i, result, ub, rng) ==
    IF ~(i < size) THEN {GenOutcome("ok", result, ub, rng)}
    ELSE UNION {
        IF d.kind = "ok"
        THEN randomLoop(size, i + 1, Append(result, d.val), ub \/ d.ub, d.rng)
        ELSE {GenOutcome(d.kind, result, ub \/ d.ub, d.rng)}
        : d \in generateRandomNumber(_lowerBound, _upperBound, TRUE, TRUE, rng)}

generateRandomSequence(size, rng) ==
    randomLoop(size, 0, InitialVector(size), FALSE, rng)

RECURSIVE pushLoop(_, _, _, _)
\* for (i...; i<size; ++i) result.push_back(f(i))  with f(i) = base + step * i
pushLoop(size, i, result, f) ==
    IF ~(i < size) THEN result
    ELSE pushLoop(size, i + 1, Append(result, f[1] + f[2] * i), f)

generateSameSequence(size, rng) ==
    { IF d.kind = "ok"
      THEN GenOutcome("ok", pushLoop(size, 0, InitialVector(size), <<d.val, 0>>),
                      d.ub, d.rng)
      ELSE GenOutcome(d.kind, InitialVector(size), d.ub, d.rng)
      : d \in generateRandomNumber(_lowerBound, _upperBound, TRUE, TRUE, rng) }

generateSortedSequence(size, rng) ==
    {GenOutcome("ok", pushLoop(size, 0, InitialVector(size), <<_lowerBound, 1>>),
                FALSE, rng)}

generateReverseSortedSequence(size, rng) ==
    {GenOutcome("ok", pushLoop(size, 0, InitialVector(size), <<_upperBound, -1>>),
                FALSE, rng)}

\* the dispatch of lines 324-334; "invalid type!" is thrown for any other name
generate(type, size, rng) ==
    IF type = "RANDOM" THEN generateRandomSequence(size, rng)
    ELSE IF type = "SAME" THEN generateSameSequence(size, rng)
    ELSE IF type = "SORTED" THEN generateSortedSequence(size, rng)
    ELSE IF type = "REVERSESORTED" THEN generateReverseSortedSequence(size, rng)
    ELSE {GenOutcome("throw", <<>>, FALSE, rng)}

(***************************************************************************)
(* ISortAlgorithm::validateSequence (lines 68-82).                         *)
(***************************************************************************)
RECURSIVE validateLoop(_, _, _, _)
\* `first` is tested in every iteration and assigned in none
validateLoop(seq, i, previous, first) ==
    IF ~(i < Len(seq)) THEN TRUE
    ELSE IF first
         THEN validateLoop(seq, i + 1, seq[i + 1], first)
         ELSE IF seq[i + 1] < previous
              THEN FALSE
              ELSE validateLoop(seq, i + 1, seq[i + 1], first)

\* `int previous;` holds no value before the loop; it is read only when
\* `first` is false
validateSequence(seq) == validateLoop(seq, 0, "uninitialized", TRUE)

(***************************************************************************)
(* BubbleSort::sort (lines 93-104).                                        *)
(***************************************************************************)
Swap(seq, i, j) ==
    [seq EXCEPT ![i + 1] = seq[j + 1], ![j + 1] = seq[i + 1]]

RECURSIVE bubbleInnerStopsEarly(_, _, _)
\* bubbleInner with the loop test `j < sequence.size() - 1`: the last element is
\* never compared
bubbleInnerStopsEarly(seq, i, j) ==
    IF ~(j < Len(seq) - 1) THEN seq
    ELSE bubbleInnerStopsEarly(IF seq[i + 1] > seq[j + 1]
                               THEN Swap(seq, i, j) ELSE seq,
                               i, j + 1)

RECURSIVE bubbleInner(_, _, _)
bubbleInner(seq, i, j) ==
    IF ~(j < Len(seq)) THEN seq
    ELSE bubbleInner(IF seq[i + 1] > seq[j + 1]
                     THEN Swap(seq, i, j) ELSE seq,
                     i, j + 1)

RECURSIVE bubbleOuter(_, _)
bubbleOuter(seq, i) ==
    IF ~(i < Len(seq) - 1) THEN seq
    ELSE bubbleOuter(bubbleInner(seq, i, i + 1), i + 1)

\* On the empty vector `sequence.size()-1` is SIZE_MAX: the outer loop runs
\* with an empty inner loop until `i` passes INT_MAX, a signed overflow.  A
\* wrapping build leaves the loop when i reaches -1 (== SIZE_MAX as size_t); a
\* build that assumes no overflow never leaves it.
BubbleSort_sort(seq) ==
    IF Len(seq) = 0
    THEN {Outcome("ok", seq, TRUE), Outcome("nonterm", seq, TRUE)}
    ELSE {Outcome("ok", bubbleOuter(seq, 0), FALSE)}

(***************************************************************************)
(* CountSort::sort (lines 114-161).                                        *)
(***************************************************************************)
RECURSIVE countOccurrences(_, _, _)
\* for (i = 0; i < size; ++i) ++count[sequence[i]]
countOccurrences(seq, i, count) ==
    IF ~(i < Len(seq)) THEN count
    ELSE countOccurrences(seq, i + 1,
             [count EXCEPT ![seq[i + 1]] = @ + 1])

\* for (i = 1; i <= max; ++i) count[i] += count[i-1]
\* The loop leaves in count[i] the sum of the old count[0..i]; with max up to
\* 300 it is written here as that sum, taken over the entries that are not 0.
countPrefix(max, count) ==
    LET used == {v \in 0..max : count[v] > 0}
        Sum[S \in SUBSET used] ==
            IF S = {} THEN 0
            ELSE LET v == CHOOSE x \in S : TRUE IN count[v] + Sum[S \ {v}]
    IN  [i \in 0..max |-> Sum[{v \in used : v <= i}]]

RECURSIVE countBuild(_, _, _, _, _)
\* for (i = 0; i < size; ++i) { output[count[v]-1] = v; --count[v]; }
\* output is a char array: the value stored is ToChar(v)
countBuild(seq, i, count, output, charSigned) ==
    IF ~(i < Len(seq)) THEN output
    ELSE LET v == seq[i + 1]
         IN  countBuild(seq, i + 1, [count EXCEPT ![v] = @ - 1],
                 [output EXCEPT ![(count[v] - 1) + 1] = ToChar(v, charSigned)],
                 charSigned)

\* the copy back `sequence[i] = output[i]` widens each char to int
CountSortWith(seq, max, charSigned) ==
    LET zero   == [v \in 0..max |-> 0]                  \* memset
        count  == countPrefix(max, countOccurrences(seq, 0, zero))
        blank  == [k \in 1..Len(seq) |-> 0]
    IN  countBuild(seq, 0, count, blank, charSigned)

\* `int count[max + 1]` lives on the stack: 8 MiB hold 2 * 1024 * 1024 ints;
\* a larger table exhausts it and the process is killed
StackHolds(n) == n <= 2 * 1024 * 1024

\* Whether char is signed is the build's choice.  `int count[max + 1]` with
\* max < 0 and `count[sequence[i]]` with an element outside 0..max are
\* undefined.
CountSort_sort(seq, max) ==
    IF ~StackHolds(max + 1) THEN {Outcome("crash", seq, TRUE)}
    ELSE IF max + 1 <= 0 \/ \E k \in 1..Len(seq) : seq[k] \notin 0..max
    THEN Undefined(seq)
    ELSE {Outcome("ok", CountSortWith(seq, max, charSigned), FALSE)
          : charSigned \in BOOLEAN}

(***************************************************************************)
(* RadixSort::sort / RadixSort::countSort (lines 169-208).                 *)
(***************************************************************************)
Digit(v, exp) == CMod(CDiv(v, exp), 10)

RECURSIVE digitOccurrences(_, _, _, _)
digitOccurrences(seq, exp, i, count) ==
    IF ~(i < Len(seq)) THEN count
    ELSE digitOccurrences(seq, exp, i + 1,
             [count EXCEPT ![Digit(seq[i + 1], exp)] = @ + 1])

RECURSIVE digitPrefix(_, _)
\* for (i = 1; i < 10; i++) count[i] += count[i - 1]
digitPrefix(i, count) ==
    IF ~(i < 10) THEN count
    ELSE digitPrefix(i + 1, [count EXCEPT ![i] = @ + count[i - 1]])

RECURSIVE digitBuild(_, _, _, _, _)
\* for (i = size - 1; i >= 0; i--) { output[count[d] - 1] = v; count[d]--; }
digitBuild(seq, exp, i, count, output) ==
    IF ~(i >= 0) THEN output
    ELSE LET v == seq[i + 1]
             d == Digit(v, exp)
         IN  digitBuild(seq, exp, i - 1, [count EXCEPT ![d] = @ - 1],
                 [output EXCEPT ![(count[d] - 1) + 1] = v])

\* TRUE when every index into count[10] is in range
DigitsInRange(seq, exp) ==
    \A k \in 1..Len(seq) : Digit(seq[k], exp) \in 0..9

RadixSort_countSort(seq, exp) ==
    LET zero  == [d \in 0..9 |-> 0]
        count == digitPrefix(1, digitOccurrences(seq, exp, 0, zero))
        blank == [k \in 1..Len(seq) |-> 0]
    IN  digitBuild(seq, exp, Len(seq) - 1, count, blank)

RECURSIVE MaxElement(_, _, _)
MaxElement(seq, i, best) ==
    IF ~(i < Len(seq)) THEN best
    ELSE MaxElement(seq, i + 1,
             IF best < seq[i + 1] THEN seq[i + 1] ELSE best)

\* exp *= 10: TRUE when the product does not fit an int
Mul10Overflows(exp) == exp > IntMax \div 10 \/ exp < -((IntMax \div 10) + 1)

RECURSIVE radixLoop(_, _, _, _, _)
\* for (int exp = 1; m/exp > 0; exp *= 10) countSort(seq, exp);
\* When exp * 10 overflows, a wrapping build goes on with the wrapped value
\* and a build that assumes no overflow keeps looping.
radixLoop(seq, m, exp, exps, ub) ==
    IF exp = 0 THEN {[o EXCEPT !.exps = exps] : o \in Undefined(seq)}
    ELSE IF ~(CDiv(m, exp) > 0)
    THEN {[Outcome("ok", seq, ub) EXCEPT !.exps = exps]}
    ELSE IF ~DigitsInRange(seq, exp)
    THEN {[o EXCEPT !.exps = Append(exps, exp)] : o \in Undefined(seq)}
    ELSE LET sorted == RadixSort_countSort(seq, exp)
             passed == Append(exps, exp)
         IN  IF Mul10Overflows(exp)
             THEN radixLoop(sorted, m, Mul10Wrap(exp), passed, TRUE)
                  \cup (IF ub THEN {}
                        ELSE {[Outcome("nonterm", sorted, TRUE)
                                  EXCEPT !.exps = passed]})
             ELSE radixLoop(sorted, m, exp * 10, passed, ub)

\* `*max_element(begin, end)` of the empty vector dereferences end()
RadixSort_sort(seq) ==
    IF Len(seq) = 0 THEN Undefined(seq)
    ELSE radixLoop(seq, MaxElement(seq, 1, seq[1]), 1, <<>>, FALSE)

(***************************************************************************)
(* MergeSort::sort / _merge / merge (lines 216-280).                       *)
(***************************************************************************)
RECURSIVE mergeLoop(_, _, _, _, _, _)
\* the three while loops of merge(): take from L while L[i] <= R[j], then the
\* rest of L, then the rest of R
mergeLoop(seq, L, R, i, j, k) ==
    IF i < Len(L) /\ j < Len(R)
    THEN IF L[i + 1] <= R[j + 1]
         THEN mergeLoop([seq EXCEPT ![k + 1] = L[i + 1]], L, R, i + 1, j, k + 1)
         ELSE mergeLoop([seq EXCEPT ![k + 1] = R[j + 1]], L, R, i, j + 1, k + 1)
    ELSE IF i < Len(L)
    THEN mergeLoop([seq EXCEPT ![k + 1] = L[i + 1]], L, R, i + 1, j, k + 1)
    ELSE IF j < Len(R)
    THEN mergeLoop([seq EXCEPT ![k + 1] = R[j + 1]], L, R, i, j + 1, k + 1)
    ELSE seq

\* L = seq[left..middle], R = seq[middle+1..right]; an index outside
\* the vector (or a negative array length) is undefined
MergeSort_merge(seq, left, middle, right) ==
    LET n1 == middle - left + 1
        n2 == right - middle
    IN  IF n1 < 0 \/ n2 < 0 \/ left < 0
           \/ (n1 > 0 /\ middle >= Len(seq))
           \/ (n2 > 0 /\ right >= Len(seq))
        THEN Undefined(seq)
        ELSE {Outcome("ok",
                  mergeLoop(seq,
                            [i \in 1..n1 |-> seq[left + (i - 1) + 1]],
                            [j \in 1..n2 |-> seq[middle + 1 + (j - 1) + 1]],
                            0, 0, left),
                  FALSE)}

\* what a nested call gave, seen from its caller: the caller goes on only
\* after a call that returned and executed nothing undefined
Returns(o) == o.kind = "ok" /\ ~o.ub

\* the guard of _merge: `if (right > left) return;`
MergeReturnsAtOnce(left, right) == right > left

RECURSIVE MergeSort__merge(_, _, _, _)
\* depth counts the frames of _merge on the stack; the recursion that does not
\* end exhausts it
MergeSort__merge(seq, left, right, depth) ==
    IF MergeReturnsAtOnce(left, right) THEN {Outcome("ok", seq, FALSE)}
    ELSE IF depth >= MaxStack THEN Undefined(seq)
    ELSE LET middle == left + CDiv(right - left, 2)
             first  == MergeSort__merge(seq, left, middle, depth + 1)
             second == UNION {IF Returns(o)
                              THEN MergeSort__merge(o.seq, middle + 1, right,
                                                    depth + 1)
                              ELSE {o} : o \in first}
         IN  UNION {IF Returns(o)
                    THEN MergeSort_merge(o.seq, left, middle, right)
                    ELSE {o} : o \in second}

MergeSort_sort(seq) == MergeSort__merge(seq, 0, Len(seq), 1)

(***************************************************************************)
(* main() (lines 283-353), after the command line was parsed.              *)
(***************************************************************************)
Algorithms == {"BUBBLESORT", "MERGESORT", "COUNTSORT", "RADIXSORT", "QUICKSORT"}

SequenceTypes == {"RANDOM", "SAME", "SORTED", "REVERSESORTED", "SHUFFLED"}

\* the small bounds, and one bound of ten decimal digits
BoundValues == ((-1)..MaxBound) \cup {2000000000}

NoAlgorithm == [name |-> "nullptr", max |-> 0]

NoCall == [fn |-> "main"]

NoReturn == [kind |-> "none"]

\* what the object `alg` points to does on sort(sequence): the virtual call
Sort(a, seq) ==
    IF a.name = "BubbleSort" THEN BubbleSort_sort(seq)
    ELSE IF a.name = "MergeSort" THEN MergeSort_sort(seq)
    ELSE IF a.name = "CountSort" THEN CountSort_sort(seq, a.max)
    ELSE RadixSort_sort(seq)

\* an exception nobody catches, or a fatal signal: the process ends at once;
\* the FILE is neither flushed nor closed
Terminate(how) ==
    /\ pc' = "terminated"
    /\ exit' = how

InitMain ==
    /\ _sequenceSize \in 0..MaxSize
    /\ _algorithm \in Algorithms
    /\ _sequenceType \in SequenceTypes
    /\ _seed \in 0..MaxSeed
    /\ _lowerBound \in BoundValues
    /\ _upperBound \in BoundValues
    /\ _runs \in 0..MaxRuns
    /\ canOpen \in BOOLEAN
    /\ randState = srand(1)        \* rand() before any srand() is seeded with 1
    /\ pc = "srand"
    /\ alg = NoAlgorithm
    /\ run = 0
    /\ sequence = <<>>
    /\ file = "none"
    /\ header = 0
    /\ rows = <<>>
    /\ timer = "idle"
    /\ elapsed = 0
    /\ exit = ""
    /\ undefined = FALSE
    /\ recorded = <<>>
    /\ generated = <<>>
    /\ draws = 0
    /\ call = NoCall
    /\ ret = NoReturn

\* Seed with srand(time(NULL)) in place of srand(_seed): the source starts in
\* a state the configuration does not fix
SeedFromClock ==
    /\ pc = "srand"
    /\ randState' \in 0..RandMax
    /\ pc' = "select"
    /\ UNCHANGED <<globals, alg, run, sequence, file, header, rows, timer,
                   elapsed, exit, undefined, history, call, ret>>

\* line 298
Seed ==
    /\ pc = "srand"
    /\ randState' = srand(_seed)
    /\ pc' = "select"
    /\ UNCHANGED <<globals, alg, run, sequence, file, header, rows, timer,
                   elapsed, exit, undefined, history, call, ret>>

\* lines 300-311
SelectAlgorithm ==
    /\ pc = "select"
    /\ IF _algorithm = "BUBBLESORT"
       THEN alg' = [name |-> "BubbleSort", max |-> 0] /\ pc' = "open" /\ exit' = exit
       ELSE IF _algorithm = "MERGESORT"
       THEN alg' = [name |-> "MergeSort", max |-> 0] /\ pc' = "open" /\ exit' = exit
       ELSE IF _algorithm = "COUNTSORT"
       THEN alg' = [name |-> "CountSort", max |-> _upperBound] /\ pc' = "open"
            /\ exit' = exit
       ELSE IF _algorithm = "RADIXSORT"
       THEN alg' = [name |-> "RadixSort", max |-> 0] /\ pc' = "open" /\ exit' = exit
       ELSE alg' = alg /\ Terminate("invalid algorithm!")
    /\ UNCHANGED <<globals, randState, run, sequence, file, header, rows, timer,
                   elapsed, undefined, history, call, ret>>

\* OpenFile without the test of line 316: the loop is entered with a null
\* handle
OpenFileUnchecked ==
    /\ pc = "open"
    /\ IF canOpen
       THEN file' = "open" /\ header' = header + 1
       ELSE file' = file /\ header' = header
    /\ pc' = "loop"
    /\ UNCHANGED <<globals, randState, alg, run, sequence, rows, timer, elapsed,
                   exit, undefined, history, call, ret>>

\* lines 313-319: fopen(.., "w") creates or truncates the file; the header is
\* written right after
OpenFile ==
    /\ pc = "open"
    /\ IF canOpen
       THEN file' = "open" /\ header' = header + 1 /\ pc' = "loop" /\ exit' = exit
       ELSE file' = file /\ header' = header /\ Terminate("can't open file")
    /\ UNCHANGED <<globals, randState, alg, run, sequence, rows, timer, elapsed,
                   undefined, history, call, ret>>

\* line 321: the loop test
LoopTest ==
    /\ pc = "loop"
    /\ pc' = IF run < _runs THEN "generate" ELSE "close"
    /\ UNCHANGED <<globals, randState, alg, run, sequence, file, header, rows,
                   timer, elapsed, exit, undefined, history, call, ret>>

\* the calls of rand() a generation that returns makes: one per element for
\* RANDOM (lines 30-31), one for SAME (line 38), none otherwise
RandCalls(type, size) ==
    IF type = "RANDOM" THEN size ELSE IF type = "SAME" THEN 1 ELSE 0

\* lines 322-334
Generate ==
    /\ pc = "generate"
    /\ \E o \in generate(_sequenceType, _sequenceSize, randState) :
         /\ randState' = o.rng
         /\ undefined' = (undefined \/ o.ub)
         /\ IF o.kind = "ok"
            THEN /\ generated' = Append(generated,
                                        [seq |-> o.seq, before |-> draws])
                 /\ draws' = draws + RandCalls(_sequenceType, _sequenceSize)
            ELSE UNCHANGED <<generated, draws>>
         /\ IF o.kind = "ok"
            THEN sequence' = o.seq /\ pc' = "reset" /\ exit' = exit
            ELSE /\ sequence' = <<>>
                 /\ Terminate(IF o.kind = "crash" THEN "killed"
                              ELSE IF _sequenceType \in {"RANDOM", "SAME"}
                              THEN "cannot generate random number"
                              ELSE "invalid type!")
    /\ UNCHANGED <<globals, alg, run, file, header, rows, timer, elapsed,
                   recorded, call, ret>>

\* Reset with the clock read before alg->reset(): the reset falls inside the
\* timed interval
ResetStartsTimer ==
    /\ pc = "reset"
    /\ timer' = "running"
    /\ pc' = "start"
    /\ UNCHANGED <<globals, randState, alg, run, sequence, file, header, rows,
                   elapsed, exit, undefined, history, call, ret>>

\* line 336: reset() is empty in the four classes
Reset ==
    /\ pc = "reset"
    /\ pc' = "start"
    /\ UNCHANGED <<globals, randState, alg, run, sequence, file, header, rows,
                   timer, elapsed, exit, undefined, history, call, ret>>

\* line 337
StartTimer ==
    /\ pc = "start"
    /\ timer' = "running"
    /\ pc' = "sort"
    /\ UNCHANGED <<globals, randState, alg, run, sequence, file, header, rows,
                   elapsed, exit, undefined, history, call, ret>>

\* line 338
SortSequence ==
    /\ pc = "sort"
    /\ \E o \in Sort(alg, sequence) :
         /\ sequence' = o.seq
         /\ undefined' = (undefined \/ o.ub)
         /\ IF o.kind = "ok" THEN pc' = "stop" /\ exit' = exit
            ELSE IF o.kind = "nonterm" THEN pc' = "hang" /\ exit' = exit
            ELSE Terminate("killed")
    /\ UNCHANGED <<globals, randState, alg, run, file, header, rows, timer,
                   elapsed, history, call, ret>>

\* lines 339-340, and the conversion to microseconds of line 346
StopTimer ==
    /\ pc = "stop"
    /\ timer' = "stopped"
    /\ \E t \in 0..MaxElapsed : elapsed' = t
    /\ pc' = "validate"
    /\ UNCHANGED <<globals, randState, alg, run, sequence, file, header, rows,
                   exit, undefined, history, call, ret>>

\* lines 342-344
Validate ==
    /\ pc = "validate"
    /\ IF ~validateSequence(sequence)
       THEN Terminate("sorting failed!")
       ELSE pc' = "record" /\ exit' = exit
    /\ UNCHANGED <<globals, randState, alg, run, sequence, file, header, rows,
                   timer, elapsed, undefined, history, call, ret>>

\* Record with the row written after the increment of `run`: the indices
\* start at 1
RecordAfterIncrement ==
    /\ pc = "record"
    /\ rows' = Append(rows, [run |-> run + 1, time |-> elapsed])
    /\ recorded' = Append(recorded, sequence)
    /\ run' = run + 1
    /\ timer' = "idle"
    /\ elapsed' = 0
    /\ pc' = "loop"
    /\ UNCHANGED <<globals, randState, alg, sequence, file, header, exit,
                   undefined, generated, draws, call, ret>>

\* line 346, and the ++run of line 321
Record ==
    /\ pc = "record"
    /\ rows' = Append(rows, [run |-> run, time |-> elapsed])
    /\ recorded' = Append(recorded, sequence)
    /\ run' = run + 1
    /\ timer' = "idle"
    /\ elapsed' = 0
    /\ pc' = "loop"
    /\ UNCHANGED <<globals, randState, alg, sequence, file, header, exit,
                   undefined, generated, draws, call, ret>>

\* lines 349-353
Close ==
    /\ pc = "close"
    /\ file' = "closed"
    /\ alg' = NoAlgorithm
    /\ pc' = "done"
    /\ exit' = "return"
    /\ UNCHANGED <<globals, randState, run, sequence, header, rows, timer,
                   elapsed, undefined, history, call, ret>>

Next ==
    \/ Seed
    \/ SelectAlgorithm
    \/ OpenFile
    \/ LoopTest
    \/ Generate
    \/ Reset
    \/ StartTimer
    \/ SortSequence
    \/ StopTimer
    \/ Validate
    \/ Record
    \/ Close

Spec == InitMain /\ [][Next]_vars

(***************************************************************************)
(* The functions called directly: every function of the file applied to    *)
(* arguments drawn from bounded sets.  `call` holds the function and its   *)
(* arguments, `ret` what the call gave; the generators read the globals    *)
(* _lowerBound and _upperBound and the state of rand().                    *)
(***************************************************************************)
\* 130 does not fit a signed char, 300 fits no char, 2000000000 has ten
\* decimal digits
IntValues == {-1, 0, 1, 2, 130, 300, 2000000000}

Vectors == UNION {[1..n -> IntValues] : n \in 0..MaxLen}

CountMaxes == {2, 130, 300}

Generators == {"generateRandomSequence", "generateSameSequence",
               "generateSortedSequence", "generateReverseSortedSequence"}

SequenceCalls ==
    [fn : {"validateSequence", "BubbleSort::sort", "MergeSort::sort",
           "RadixSort::sort"},
     seq : Vectors]
    \cup [fn : {"CountSort::sort"}, seq : Vectors, max : CountMaxes]

GeneratorCalls == [fn : Generators, size : 0..MaxSize]

InitFn ==
    /\ call \in SequenceCalls \cup GeneratorCalls
    /\ IF call.fn \in Generators
       THEN /\ _lowerBound \in BoundValues
            /\ _upperBound \in BoundValues
            /\ _seed \in 0..MaxSeed
       ELSE /\ _lowerBound = 0
            /\ _upperBound = 0
            /\ _seed = 0
    /\ randState = srand(_seed)
    /\ _sequenceSize = 0
    /\ _algorithm = ""
    /\ _sequenceType = ""
    /\ _runs = 0
    /\ canOpen = FALSE
    /\ pc = "call"
    /\ alg = NoAlgorithm
    /\ run = 0
    /\ sequence = <<>>
    /\ file = "none"
    /\ header = 0
    /\ rows = <<>>
    /\ timer = "idle"
    /\ elapsed = 0
    /\ exit = ""
    /\ undefined = FALSE
    /\ recorded = <<>>
    /\ generated = <<>>
    /\ draws = 0
    /\ ret = NoReturn

Return(outcome) ==
    /\ ret' = outcome
    /\ pc' = "returned"
    /\ UNCHANGED <<globals, alg, run, sequence, file, header, rows, timer,
                   elapsed, exit, undefined, history, call>>

CallValidateSequence ==
    /\ pc = "call" /\ call.fn = "validateSequence"
    /\ Return([kind |-> "ok", val |-> validateSequence(call.seq)])
    /\ UNCHANGED randState

CallBubbleSort ==
    /\ pc = "call" /\ call.fn = "BubbleSort::sort"
    /\ \E o \in BubbleSort_sort(call.seq) : Return(o)
    /\ UNCHANGED randState

CallMergeSort ==
    /\ pc = "call" /\ call.fn = "MergeSort::sort"
    /\ \E o \in MergeSort_sort(call.seq) : Return(o)
    /\ UNCHANGED randState

CallCountSort ==
    /\ pc = "call" /\ call.fn = "CountSort::sort"
    /\ \E o \in CountSort_sort(call.seq, call.max) : Return(o)
    /\ UNCHANGED randState

CallRadixSort ==
    /\ pc = "call" /\ call.fn = "RadixSort::sort"
    /\ \E o \in RadixSort_sort(call.seq) : Return(o)
    /\ UNCHANGED randState

CallGenerateRandomSequence ==
    /\ pc = "call" /\ call.fn = "generateRandomSequence"
    /\ \E o \in generateRandomSequence(call.size, randState) :
         Return(o) /\ randState' = o.rng

CallGenerateSameSequence ==
    /\ pc = "call" /\ call.fn = "generateSameSequence"
    /\ \E o \in generateSameSequence(call.size, randState) :
         Return(o) /\ randState' = o.rng

CallGenerateSortedSequence ==
    /\ pc = "call" /\ call.fn = "generateSortedSequence"
    /\ \E o \in generateSortedSequence(call.size, randState) :
         Return(o) /\ randState' = o.rng

CallGenerateReverseSortedSequence ==
    /\ pc = "call" /\ call.fn = "generateReverseSortedSequence"
    /\ \E o \in generateReverseSortedSequence(call.size, randState) :
         Return(o) /\ randState' = o.rng

NextFn ==
    \/ CallValidateSequence
    \/ CallBubbleSort
    \/ CallMergeSort
    \/ CallCountSort
    \/ CallRadixSort
    \/ CallGenerateRandomSequence
    \/ CallGenerateSameSequence
    \/ CallGenerateSortedSequence
    \/ CallGenerateReverseSortedSequence

SpecFn == InitFn /\ [][NextFn]_vars

(***************************************************************************)
(* Properties.                                                             *)
(***************************************************************************)
IsNonDecreasing(seq) == \A k \in 1..(Len(seq) - 1) : seq[k] <= seq[k + 1]

Occurrences(seq, v) == Cardinality({k \in 1..Len(seq) : seq[k] = v})

SameMultiset(a, b) ==
    /\ Len(a) = Len(b)
    /\ \A k \in 1..Len(a) : Occurrences(a, a[k]) = Occurrences(b, a[k])

Returned(fn) == pc = "returned" /\ call.fn = fn

\* the call returned, executed nothing undefined, and left a sorted
\* permutation of its argument
SortedPermutation ==
    /\ ret.kind = "ok"
    /\ ~ret.ub
    /\ IsNonDecreasing(ret.seq)
    /\ SameMultiset(ret.seq, call.seq)

\* C1: validateSequence returns true exactly when the sequence is
\* non-decreasing (false if some element is smaller than its predecessor, true
\* otherwise, the empty and the one-element sequence included).
C1_ValidatorExact ==
    Returned("validateSequence") => (ret.val = IsNonDecreasing(call.seq))

\* C2: a row for run i is appended only if the sequence the sort left in run
\* i is non-decreasing (recorded[k] is the vector behind row k).  Stated for
\* the executions that execute nothing undefined.
C2_RowOnlyIfSorted ==
    ~undefined => \A k \in 1..Len(recorded) : IsNonDecreasing(recorded[k])

\* C3: for every sequence with at least one element MergeSort::sort leaves it
\* non-decreasing, with the same multiset of values.
C3_MergeSortSorts ==
    (Returned("MergeSort::sort") /\ Len(call.seq) >= 1) => SortedPermutation

\* C4: for every sequence whose elements lie in [0, max] CountSort::sort
\* leaves it non-decreasing, with the same multiset of values.
C4_CountSortSorts ==
    (/\ Returned("CountSort::sort")
     /\ \A k \in 1..Len(call.seq) : call.seq[k] \in 0..call.max)
    => SortedPermutation

\* C5: for every sequence with at least one element BubbleSort::sort leaves it
\* non-decreasing, with the same multiset of values.
C5_BubbleSortSorts ==
    (Returned("BubbleSort::sort") /\ Len(call.seq) >= 1) => SortedPermutation

\* C5 witness: BubbleSort::sort returned from a call on a sequence of three
\* elements that was not in order, some of them equal
C5_Witness ==
    /\ Returned("BubbleSort::sort")
    /\ Len(call.seq) = 3
    /\ call.seq[1] > call.seq[3] /\ call.seq[2] = call.seq[1]
    /\ ret.kind = "ok"
    /\ ret.seq # call.seq

RECURSIVE DigitWeights(_, _)
\* 1, 10, 100, ... : one weight per decimal digit of m (none for m = 0)
DigitWeights(m, exp) ==
    IF m \div exp = 0 THEN <<>>
    ELSE IF exp > IntMax \div 10 THEN <<exp>>
    ELSE <<exp>> \o DigitWeights(m, exp * 10)

\* C6: for every non-empty sequence of non-negative integers RadixSort::sort
\* leaves it non-decreasing, with the same multiset of values, after one
\* counting pass per decimal digit of the maximum element, least significant
\* digit first.
C6_RadixSortSorts ==
    (/\ Returned("RadixSort::sort")
     /\ Len(call.seq) >= 1
     /\ \A k \in 1..Len(call.seq) : call.seq[k] >= 0)
    => /\ ret.kind = "ok"
       /\ IsNonDecreasing(ret.seq)
       /\ SameMultiset(ret.seq, call.seq)
       /\ ret.exps = DigitWeights(MaxElement(call.seq, 1, call.seq[1]), 1)

\* C7: for each of the four policies, every size >= 0 and every
\* lowerBound <= upperBound the generated sequence has length exactly size.
C7_GeneratedLength ==
    (pc = "returned" /\ call.fn \in Generators /\ _lowerBound <= _upperBound)
    => (ret.kind = "ok" /\ Len(ret.seq) = call.size)

\* C8: with policy SORTED the generated sequence is exactly lowerBound,
\* lowerBound+1, ..., lowerBound+size-1, for every size, bounds and seed.
C8_SortedIsAscendingRun ==
    Returned("generateSortedSequence")
    => (ret.kind = "ok"
        /\ ret.seq = [k \in 1..call.size |-> _lowerBound + (k - 1)])

\* C9: with policy RANDOM and lowerBound <= upperBound every element of the
\* generated sequence lies in [lowerBound, upperBound].
C9_RandomWithinBounds ==
    (Returned("generateRandomSequence") /\ _lowerBound <= _upperBound)
    => (ret.kind = "ok"
        /\ \A k \in 1..Len(ret.seq) : ret.seq[k] \in _lowerBound.._upperBound)

\* C10: for RANDOM and SAME, generation with lowerBound > upperBound ends in
\* the out-of-range failure: it returns no sequence and executes nothing
\* undefined (no remainder by zero).  Stated for the calls that draw at least
\* one number (size >= 1; SAME draws one for every size).
C10_BadBoundsFail ==
    (/\ pc = "returned"
     /\ call.fn \in {"generateRandomSequence", "generateSameSequence"}
     /\ call.size >= 1
     /\ _lowerBound > _upperBound)
    => (ret.kind = "throw" /\ ~ret.ub)

IsPrefix(a, b) == Len(a) <= Len(b) /\ \A k \in 1..Len(a) : a[k] = b[k]

\* C11: an execution that completes with run count N has written the header
\* once and then exactly N rows with the run indices 0, 1, ..., N-1 in that
\* order; at every point the rows written are a prefix of that list, and a
\* step only appends (no row is changed, dropped, repeated or skipped).
C11_RowsInOrder ==
    /\ [](/\ header <= 1
          /\ (rows # <<>> => header = 1)
          /\ Len(rows) <= _runs
          /\ \A k \in 1..Len(rows) : rows[k].run = k - 1
          /\ (pc = "done" => header = 1 /\ Len(rows) = _runs))
    /\ [][IsPrefix(rows, rows') /\ Len(rows') <= Len(rows) + 1
           /\ header' >= header]_vars

\* C11 witness: an execution with two runs has completed
C11_Witness ==
    /\ pc = "done"
    /\ _runs = 2
    /\ Len(rows) = 2
    /\ rows[1].run = 0
    /\ rows[2].run = 1

\* The messages of the three configuration errors (lines 310, 333 and 22)
ConfigurationErrors ==
    {"invalid algorithm!", "invalid type!", "cannot generate random number"}

\* C12: when the execution fails for a configuration error (unknown
\* algorithm, unknown sequence type, lowerBound > upperBound for a sampling
\* type), the output file has not been created or truncated and neither the
\* header nor a row has been written.
C12_ConfigErrorBeforeOutput ==
    (pc = "terminated" /\ exit \in ConfigurationErrors)
        => (file = "none" /\ header = 0 /\ rows = <<>>)

\* C13: on every exit path taken after the output file was opened (the end
\* of the loop, a validation failure, an unknown sequence type, a generation
\* failure), the file has been closed by the time the execution ends.
C13_FileClosedAtExit ==
    (pc \in {"done", "terminated"} /\ file # "none" /\ ~undefined)
        => file = "closed"

\* C14: if the output file cannot be opened, the execution fails before any
\* run executes: no sequence is generated, no sort is called and nothing is
\* written.
C14_OpenFailureBeforeAnyRun ==
    ~canOpen =>
        /\ pc \in {"srand", "select", "open", "terminated"}
        /\ (pc = "terminated" => exit \in {"invalid algorithm!", "can't open file"})
        /\ file = "none" /\ header = 0 /\ rows = <<>>
        /\ sequence = <<>> /\ generated = <<>> /\ recorded = <<>>
        /\ draws = 0 /\ run = 0 /\ timer = "idle"

\* C14 witness: an execution asked for runs has failed at the open
C14_Witness ==
    /\ ~canOpen
    /\ _runs >= 1
    /\ alg # NoAlgorithm
    /\ pc = "terminated"
    /\ exit = "can't open file"

RECURSIVE RandIter(_, _)
\* the state of the source after n calls of rand()
RandIter(rng, n) == IF n = 0 THEN rng ELSE RandIter(rand(rng), n - 1)

\* The vectors the configuration generates after `before` calls of rand()
SequencesAfter(before) ==
    { o.seq : o \in { x \in generate(_sequenceType, _sequenceSize,
                                      RandIter(srand(_seed), before)) :
                       x.kind = "ok" } }

\* C15: the sequence generated at run i is a function of the configuration:
\* it is the one vector the generator yields from the source seeded with
\* _seed and advanced by the rand() calls of the runs 0..i-1, whatever else the
\* execution did (times measured, sorts run); so two executions of the same
\* configuration generate the same sequence at every run index.
C15_GenerationDeterministic ==
    \A i \in 1..Len(generated) :
        /\ generated[i].before = (i - 1) * RandCalls(_sequenceType, _sequenceSize)
        /\ SequencesAfter(generated[i].before) = {generated[i].seq}

\* C15 witness: two runs of a RANDOM configuration have drawn different
\* sequences, the second from the state the first left
C15_Witness ==
    /\ _sequenceType = "RANDOM"
    /\ _sequenceSize = 2
    /\ Len(generated) = 2
    /\ generated[2].before = 2
    /\ generated[1].seq # generated[2].seq

\* The steps of one iteration and the steps that may follow each
StepsAfter ==
    [generate |-> {"reset", "terminated"},
     reset    |-> {"start"},
     start    |-> {"sort"},
     sort     |-> {"stop", "terminated", "hang"},
     stop     |-> {"validate"},
     validate |-> {"record", "terminated"},
     record   |-> {"loop"}]

\* C16: within every iteration the steps occur in the order generate, reset,
\* start timer, sort, stop timer, validate, record; no step of the next run
\* starts before the row of this run is written; the timer runs only across
\* the sort: it is idle during generation and reset and stopped during
\* validation.
C16_StepOrder ==
    /\ [](/\ (timer = "running" => pc \in {"sort", "stop", "hang", "terminated"})
          /\ (pc \in {"generate", "reset", "start"} => timer = "idle")
          /\ (pc \in {"validate", "record"} => timer = "stopped")
          /\ (pc = "generate" => Len(generated) = run /\ Len(rows) = run)
          /\ (pc \in DOMAIN StepsAfter \ {"generate"}
                => Len(generated) = run + 1 /\ Len(rows) = run))
    /\ [][/\ (pc \in DOMAIN StepsAfter => pc' \in StepsAfter[pc])
           /\ (pc' = "generate" => pc = "loop")
           /\ (timer' = "running" /\ timer # "running" => pc = "start")
           /\ (timer = "running" => (generated' = generated /\ rows' = rows
                                      /\ randState' = randState))]_vars

\* C16 witness: the second iteration has reached the recording step
C16_Witness ==
    /\ pc = "record"
    /\ run = 1
    /\ Len(rows) = 1
    /\ Len(generated) = 2
    /\ timer = "stopped"

\* A configuration with a valid algorithm, a valid sequence type, a size and
\* a run count that are not negative, and ordered bounds
ValidConfiguration ==
    /\ _algorithm \in {"BUBBLESORT", "COUNTSORT", "RADIXSORT", "MERGESORT"}
    /\ _sequenceType \in {"RANDOM", "SAME", "SORTED", "REVERSESORTED"}
    /\ _sequenceSize >= 0
    /\ _lowerBound <= _upperBound
    /\ _runs >= 0

C18_CountSortElementsInTable ==
    (/\ pc = "sort"
     /\ alg.name = "CountSort"
     /\ 0 <= _lowerBound
     /\ _lowerBound <= _upperBound)
    => /\ alg.max = _upperBound
       /\ \A k \in 1..Len(sequence) : sequence[k] \in 0.._upperBound

SortFunctions ==
    {"BubbleSort::sort", "MergeSort::sort", "CountSort::sort", "RadixSort::sort"}

\* C19: for each of the four algorithms, sort applied to the empty sequence
\* returns, with no undefined operation (no element read or written), and
\* leaves the sequence empty.
C19_EmptySequenceSorts ==
    (pc = "returned" /\ call.fn \in SortFunctions /\ call.seq = <<>>)
    => /\ ret.kind = "ok"
       /\ ~ret.ub
       /\ ret.seq = <<>>

RECURSIVE DecimalDigits(_)
DecimalDigits(m) == IF m < 10 THEN 1 ELSE 1 + DecimalDigits(m \div 10)

\* C20: in RadixSort::sort on non-negative elements with maximum m >= 1, the
\* digit weight exp never overflows: the loop makes exactly as many passes as
\* m has decimal digits, each with a weight within the range of int, and no
\* operation of the call is undefined.
C20_ExpNeverOverflows ==
    (/\ Returned("RadixSort::sort")
     /\ Len(call.seq) >= 1
     /\ \A k \in 1..Len(call.seq) : call.seq[k] >= 0
     /\ MaxElement(call.seq, 1, call.seq[1]) >= 1)
    => /\ ~ret.ub
       /\ Len(ret.exps) = DecimalDigits(MaxElement(call.seq, 1, call.seq[1]))
       /\ \A k \in 1..Len(ret.exps) : ret.exps[k] \in 1..IntMax

====
